---- MODULE Spec2Model ----
(***************************************************************************)
(* Model of the hybrid recommendation engine of backend/server.py:         *)
(* get_movie_details, calculate_similarity_score,                          *)
(* get_enhanced_recommendations and the handlers of /movies/{id}/network   *)
(* and /movies/{id}.                                                       *)
(*                                                                         *)
(* Spec follows one request from the call to its outcome.  Every action    *)
(* is the straight-line piece of the handler that runs between two         *)
(* answers of the provider (TMDB); the answer is the action's input, and   *)
(* the answers to two lookups of the same movie are independent.           *)
(* A call the provider never answers leaves the request blocked in it.     *)
(* ScoreSpec runs the scoring of one candidate over all pairs of           *)
(* MovieRecords.  CapSpec runs the gather and the hydration loop of a      *)
(* network request on long result lists.                                   *)
(*                                                                         *)
(* Of a movie record the model keeps what the engine reads: the genre      *)
(* ids, the crew (job and id) and the cast ids; the title and the other    *)
(* display fields are taken to be present.  An entry without its 'id' is   *)
(* NoId.                                                                   *)
(*                                                                         *)
(* Scores are floats in the code.  Here they are exact rationals counted   *)
(* in units of 1/ScoreOne, so 0.4, 0.25 and 0.15 are 40, 25 and 15         *)
(* hundredths of ScoreOne; two scores that are equal here may differ by a  *)
(* rounding error in the code.                                             *)
(***************************************************************************)
EXTENDS Integers, Sequences, FiniteSets, TLC

\* ---------------------------------------------------------------- bounds
MaxId == 4          \* movie ids 1..MaxId
MaxRaw == 3         \* most raw entries the three sources return in one request
MaxLimit == 2       \* largest limit of a direct get_enhanced_recommendations call
MaxGenres == 3      \* most distinct genre ids on one movie record
MaxLong == 35       \* longest result list of one source in CapSpec

\* ------------------------------------------------------ program constants
NetworkLimit == 10  \* get_enhanced_recommendations(movie_id, 10)
ProcessCap == 30    \* unique_candidates[:30]
TopGenres == 3      \* central_genres[:3]
TopCast == 10       \* credits cast [:10] in the scorer
CentralCast == 5    \* cast [:5] of the central movie
RelatedCast == 3    \* cast [:3] of a related movie
CastSaturation == 5 \* cast_overlap / 5

NoId == -1          \* a dict without the 'id' key (dict['id'] raises KeyError)

Ids == 1..MaxId

\* the reference of the request; the code treats all ids alike
ReferenceIds == {1}

Min(a, b) == IF a < b THEN a ELSE b
Max(a, b) == IF a > b THEN a ELSE b

RECURSIVE Fact(_)
Fact(n) == IF n <= 1 THEN 1 ELSE n * Fact(n - 1)

\* the score 1.0; every quotient overlap / max_genres is a whole number of units
ScoreOne == 100 * Fact(MaxGenres)

SeqsUpTo(S, n) == UNION {[1..k -> S] : k \in 0..n}

Elems(s) == {s[i] : i \in 1..Len(s)}

Take(s, n) == SubSeq(s, 1, Min(Len(s), n))

\* ------------------------------------------------------- provider records
\* the empty dict {} : get_movie_details' answer on any failure
EmptyDict == [present |-> FALSE, id |-> 0, genres |-> <<>>, crew |-> <<>>, cast |-> <<>>]

Details(i, g, cr, ca) == [present |-> TRUE, id |-> i, genres |-> g, crew |-> cr, cast |-> ca]

Director(p) == [job |-> "Director", id |-> p]
Writer(p) == [job |-> "Writer", id |-> p]

\* ------------------------------------------------------- provider answers
\* the detail records the provider may hold for a movie: genre ids, crew, cast
SampleRecords ==
    { [genres |-> <<1, 2>>, crew |-> <<Writer(8), Director(7)>>, cast |-> <<1, 2, 3, 4, 5, 6>>],
      [genres |-> <<1>>, crew |-> <<Director(7)>>, cast |-> <<>>],
      [genres |-> <<>>, crew |-> <<>>, cast |-> <<9>>],
      [genres |-> <<2, NoId>>, crew |-> <<>>, cast |-> <<1>>] }

\* a cast list of n actors billed lo, lo+1, ...
Run(lo, n) == [i \in 1..n |-> lo + i - 1]

\* genre lists: every set of at most MaxGenres genre ids, once each
GenreLists ==
    {g \in SeqsUpTo(1..MaxGenres, MaxGenres) :
        \A i, j \in 1..Len(g) : i < j => g[i] < g[j]}

\* crew lists: no director, a director with id 0, 1 or 2, a director after
\* another crew member, two directors
CrewLists ==
    {<<>>, <<Writer(1)>>, <<Director(0)>>, <<Director(1)>>, <<Director(2)>>,
     <<Writer(1), Director(1)>>, <<Director(2), Director(1)>>}

\* cast lists: none, short ones, and ones longer than the top 10
CastLists ==
    {<<>>, Run(1, 3), Run(1, 6), Run(4, 6), Run(1, 12), Run(11, 3)}

\* the pairs of records the scorer is checked on
MovieRecords ==
    {[genres |-> g, crew |-> cr, cast |-> ca] :
        g \in GenreLists, cr \in CrewLists, ca \in CastLists}

\* answers to GET /movie/{id}?append_to_response=credits
DetailAnswers(i) ==
    {[kind |-> "ok", body |-> Details(i, r.genres, r.crew, r.cast)] : r \in SampleRecords}
    \cup {[kind |-> k, body |-> EmptyDict] : k \in {"not_found", "unavailable"}}

\* answers to /similar, /recommendations and /discover/movie: a 200 with a
\* result list of at most n entries (an entry is its id, NoId when the entry
\* has no 'id'), a non-200 status, a transport error or timeout, a 200 whose
\* body is not JSON
ListAnswers(n) ==
    {[kind |-> "ok", results |-> l] : l \in SeqsUpTo(Ids \cup {NoId}, n)}
    \cup {[kind |-> k, results |-> <<>>] : k \in {"non200", "exception", "badjson"}}

\* ------------------------------------------------------------ the program
\* get_movie_details: the JSON body, {} on any exception (raise_for_status
\* raises on 404 as on every other non-2xx status)
get_movie_details(answer) ==
    IF answer.kind = "ok" THEN answer.body ELSE EmptyDict

\* `x and ...` : None and 0 are false
Truthy(x) == x # NoId /\ x # 0

\* the id of the first crew member whose job is 'Director', None without one
FirstDirector(crew) ==
    LET ds == {i \in 1..Len(crew) : crew[i].job = "Director"}
    IN  IF ds = {} THEN NoId
        ELSE crew[CHOOSE i \in ds : \A j \in ds : i <= j].id

\* genre['id'] / actor['id'] on an entry without 'id' raises KeyError
ScoreRaises(central_movie, candidate_movie) ==
    \/ NoId \in Elems(central_movie.genres)
    \/ NoId \in Elems(candidate_movie.genres)
    \/ NoId \in Elems(Take(central_movie.cast, TopCast))
    \/ NoId \in Elems(Take(candidate_movie.cast, TopCast))

\* mutant: the overlap is divided by the number of the central movie's genres
GenreTerm_byCentral(central_genres, candidate_genres) ==
    IF central_genres # {} /\ candidate_genres # {}
    THEN LET genre_overlap == Cardinality(central_genres \cap candidate_genres)
         IN  (((genre_overlap * ScoreOne) \div Cardinality(central_genres)) * 40) \div 100
    ELSE 0

GenreTerm(central_genres, candidate_genres) ==
    IF central_genres # {} /\ candidate_genres # {}
    THEN LET genre_overlap == Cardinality(central_genres \cap candidate_genres)
             max_genres == Max(Cardinality(central_genres), Cardinality(candidate_genres))
         IN  (((genre_overlap * ScoreOne) \div max_genres) * 40) \div 100
    ELSE 0

DirectorTerm(central_director, candidate_director) ==
    IF Truthy(central_director) /\ Truthy(candidate_director)
       /\ central_director = candidate_director
    THEN (25 * ScoreOne) \div 100
    ELSE 0

CastTerm(central_cast, candidate_cast) ==
    IF central_cast # {} /\ candidate_cast # {}
    THEN LET cast_overlap == Cardinality(central_cast \cap candidate_cast)
         IN  (Min((cast_overlap * ScoreOne) \div CastSaturation, ScoreOne) * 15) \div 100
    ELSE 0

Cap(score) == Min(score, ScoreOne)

\* mutant: the genre term counts the shared genres without dividing by
\* max_genres, and the result is returned without the cap
calculate_similarity_score_unbounded(central_movie, candidate_movie) ==
    (Cardinality(Elems(central_movie.genres) \cap Elems(candidate_movie.genres))
        * 40 * ScoreOne) \div 100
    + DirectorTerm(FirstDirector(central_movie.crew), FirstDirector(candidate_movie.crew))
    + CastTerm(Elems(Take(central_movie.cast, TopCast)),
               Elems(Take(candidate_movie.cast, TopCast)))

\* mutant: score starts at base_score (0.2) instead of 0.0
calculate_similarity_score_withBase(central_movie, candidate_movie) ==
    Cap((20 * ScoreOne) \div 100
        + GenreTerm(Elems(central_movie.genres), Elems(candidate_movie.genres))
        + DirectorTerm(FirstDirector(central_movie.crew),
                       FirstDirector(candidate_movie.crew))
        + CastTerm(Elems(Take(central_movie.cast, TopCast)),
                   Elems(Take(candidate_movie.cast, TopCast))))

calculate_similarity_score(central_movie, candidate_movie) ==
    LET score == GenreTerm(Elems(central_movie.genres), Elems(candidate_movie.genres))
                 + DirectorTerm(FirstDirector(central_movie.crew),
                                FirstDirector(candidate_movie.crew))
                 + CastTerm(Elems(Take(central_movie.cast, TopCast)),
                            Elems(Take(candidate_movie.cast, TopCast)))
    IN  Cap(score)

\* candidate_details['similarity_score'] = similarity_score
WithScore(d, s) ==
    [id |-> d.id, genres |-> d.genres, crew |-> d.crew, cast |-> d.cast,
     similarity_score |-> s]

\* mutant: seen_ids starts empty
SeenInit_empty(ref) == {}

\* seen_ids = {movie_id}
SeenInit(ref) == {ref}

\* mutant: the id is not added to seen_ids
SeenAdd_forgotten(seen_ids, id) == seen_ids

\* seen_ids.add(movie['id'])
SeenAdd(seen_ids, id) == seen_ids \cup {id}

\* mutant: a new candidate goes to the front of unique_candidates
RECURSIVE DedupLoop_prepend(_, _, _)
DedupLoop_prepend(movies, seen_ids, unique) ==
    IF movies = <<>> THEN unique
    ELSE IF Head(movies) \notin seen_ids
         THEN DedupLoop_prepend(Tail(movies), SeenAdd(seen_ids, Head(movies)),
                                <<Head(movies)>> \o unique)
         ELSE DedupLoop_prepend(Tail(movies), seen_ids, unique)

RECURSIVE DedupLoop(_, _, _)
DedupLoop(movies, seen_ids, unique) ==
    IF movies = <<>> THEN unique
    ELSE IF Head(movies) \notin seen_ids
         THEN DedupLoop(Tail(movies), SeenAdd(seen_ids, Head(movies)),
                        Append(unique, Head(movies)))
         ELSE DedupLoop(Tail(movies), seen_ids, unique)

\* the entries before the first one without an 'id' (movie['id'] raises there)
RECURSIVE BeforeNoId(_)
BeforeNoId(movies) ==
    IF movies = <<>> \/ Head(movies) = NoId THEN <<>>
    ELSE <<Head(movies)>> \o BeforeNoId(Tail(movies))

UniqueCandidates(movies, ref) == DedupLoop(BeforeNoId(movies), SeenInit(ref), <<>>)

\* mutant: m goes before the entries of equal score (an unstable sort)
RECURSIVE InsertDesc_unstable(_, _)
InsertDesc_unstable(sorted, m) ==
    IF sorted = <<>> THEN <<m>>
    ELSE IF Head(sorted).similarity_score > m.similarity_score
         THEN <<Head(sorted)>> \o InsertDesc_unstable(Tail(sorted), m)
         ELSE <<m>> \o sorted

\* where a stable descending sort puts m: after every entry scoring >= m
RECURSIVE InsertDesc(_, _)
InsertDesc(sorted, m) ==
    IF sorted = <<>> THEN <<m>>
    ELSE IF Head(sorted).similarity_score >= m.similarity_score
         THEN <<Head(sorted)>> \o InsertDesc(Tail(sorted), m)
         ELSE <<m>> \o sorted

\* scored_movies.sort(key=similarity_score, reverse=True): list.sort is stable
RECURSIVE SortDesc(_)
SortDesc(movies) ==
    IF movies = <<>> THEN <<>>
    ELSE InsertDesc(SortDesc(SubSeq(movies, 1, Len(movies) - 1)), movies[Len(movies)])

\* mutant: a candidate that cannot be scored empties the batch
ScoredWith_abort(scored, central, candidate_details) ==
    IF candidate_details.present /\ ~ScoreRaises(central, candidate_details)
    THEN Append(scored, WithScore(candidate_details,
                                  calculate_similarity_score(central, candidate_details)))
    ELSE <<>>

\* the loop body (lines 224-232): a candidate whose details came and could be
\* scored is appended, any other is skipped
ScoredWith(scored, central, candidate_details) ==
    IF candidate_details.present /\ ~ScoreRaises(central, candidate_details)
    THEN Append(scored, WithScore(candidate_details,
                                  calculate_similarity_score(central, candidate_details)))
    ELSE scored

\* a record none of whose genre and cast entries lacks its 'id'
WellFormed(d) == NoId \notin Elems(d.genres) \cup Elems(d.cast)

\* mutant: the slice is left out
TopResults_all(movies, n) == movies

\* scored_movies[:limit], limit >= 0
TopResults(movies, n) == Take(movies, n)

\* process_movie_data(..., include_details=True) and the cast loop raise on a
\* genre or a top-n cast entry without 'id'
ProcessRaises(movie_data, n) ==
    \/ NoId \in Elems(movie_data.genres)
    \/ NoId \in Elems(Take(movie_data.cast, n))

RECURSIVE RelatedMovies(_)
RelatedMovies(movies) ==
    IF movies = <<>> THEN <<>>
    ELSE IF ProcessRaises(Head(movies), RelatedCast)
         THEN RelatedMovies(Tail(movies))
         ELSE <<[id |-> Head(movies).id,
                 similarity_score |-> Head(movies).similarity_score]>>
              \o RelatedMovies(Tail(movies))

\* -------------------------------------------------------------- the state
VARIABLES
    pc,                 \* where the request stands: the answer it waits for
    entry,              \* "network": GET /movies/{id}/network; "recommend": a
                        \* direct call of get_enhanced_recommendations;
                        \* "details": GET /movies/{id}
    movie_id, limit,
    central_movie_data, \* get_movie_network's lookup of the reference
    central_movie,      \* get_enhanced_recommendations' own lookup
    similar_data,       \* similar_data.get('results', [])
    candidate_movies, unique_candidates,
    idx,                \* position of the hydration loop in unique_candidates
    scored_movies,
    recommended,        \* the list get_enhanced_recommendations returned
    related_movies, status, detail,   \* the HTTP response of the network route
    ref_cause,          \* history: the provider's answer to the last reference lookup
    raised_at,          \* history: the call whose exception the outer except caught
    discover_queried,   \* history: /discover/movie was requested
    failed_sources,     \* history: which of /similar and /recommendations failed
    lookups             \* history: which candidate lookups were answered, in order

vars == <<pc, entry, movie_id, limit, central_movie_data, central_movie,
          similar_data, candidate_movies, unique_candidates, idx, scored_movies,
          recommended, related_movies, status, detail, ref_cause, raised_at,
          discover_queried, failed_sources, lookups>>

request == <<entry, movie_id, limit>>
response == <<related_movies, status, detail>>

Init ==
    /\ pc = "idle"
    /\ entry = "none"
    /\ movie_id = 0
    /\ limit = 0
    /\ central_movie_data = EmptyDict
    /\ central_movie = EmptyDict
    /\ similar_data = <<>>
    /\ candidate_movies = <<>>
    /\ unique_candidates = <<>>
    /\ idx = 1
    /\ scored_movies = <<>>
    /\ recommended = <<>>
    /\ related_movies = <<>>
    /\ status = 0
    /\ detail = ""
    /\ ref_cause = "none"
    /\ raised_at = "none"
    /\ discover_queried = FALSE
    /\ failed_sources = {}
    /\ lookups = <<>>

\* mutant: the route answers an empty list of recommendations with an error
Return_emptyIsError(movies) ==
    /\ recommended' = movies
    /\ pc' = "done"
    /\ IF entry = "network"
       THEN /\ related_movies' = RelatedMovies(movies)
            /\ status' = IF movies = <<>> THEN 404 ELSE 200
            /\ detail' = IF movies = <<>> THEN "No related movies" ELSE "OK"
       ELSE UNCHANGED response

\* get_enhanced_recommendations returns `movies`; in the network route the
\* handler then shapes the related movies and answers 200
Return(movies) ==
    /\ recommended' = movies
    /\ pc' = "done"
    /\ IF entry = "network"
       THEN /\ related_movies' = RelatedMovies(movies)
            /\ status' = 200
            /\ detail' = "OK"
       ELSE UNCHANGED response

\* except Exception as e: ... return []   (lines 238-240)
Caught(site) ==
    /\ raised_at' = site
    /\ Return(<<>>)

\* the request goes on to wait for the next answer
Await(p) ==
    /\ pc' = p
    /\ UNCHANGED <<recommended, related_movies, status, detail>>

\* mutant: without `except HTTPException: raise` the 404 is caught by
\* `except Exception` and leaves as a 500
Reraised_asInternalError(code, text) ==
    [status_code |-> 500, detail |-> "Internal server error"]

\* what leaves the handler's try block when HTTPException(code, text) is
\* raised in it: `except HTTPException: raise` comes before `except Exception`
Reraised(code, text) == [status_code |-> code, detail |-> text]

\* raise HTTPException(status_code=code, detail=text)
HTTPException(code, text) ==
    /\ status' = Reraised(code, text).status_code
    /\ detail' = Reraised(code, text).detail
    /\ pc' = "done"
    /\ UNCHANGED <<recommended, related_movies>>

\* GET /movies/{id}/network arrives
CallNetwork(id) ==
    /\ pc = "idle"
    /\ entry' = "network"
    /\ movie_id' = id
    /\ limit' = NetworkLimit
    /\ Await("net_lookup")
    /\ UNCHANGED <<central_movie_data, central_movie, similar_data, candidate_movies,
                   unique_candidates, idx, scored_movies, ref_cause, raised_at,
                   discover_queried, failed_sources, lookups>>

\* get_enhanced_recommendations(id, lim) is called directly
CallRecommend(id, lim) ==
    /\ pc = "idle"
    /\ entry' = "recommend"
    /\ movie_id' = id
    /\ limit' = lim
    /\ Await("rec_lookup")
    /\ UNCHANGED <<central_movie_data, central_movie, similar_data, candidate_movies,
                   unique_candidates, idx, scored_movies, ref_cause, raised_at,
                   discover_queried, failed_sources, lookups>>

\* get_movie_network up to its call of get_enhanced_recommendations
NetworkLookup(answer) ==
    /\ pc = "net_lookup"
    /\ central_movie_data' = get_movie_details(answer)
    /\ ref_cause' = answer.kind
    /\ IF ~central_movie_data'.present
       THEN HTTPException(404, "Movie not found")
       ELSE IF ProcessRaises(central_movie_data', CentralCast)
            THEN /\ status' = 500
                 /\ detail' = "Internal server error"
                 /\ pc' = "done"
                 /\ UNCHANGED <<recommended, related_movies>>
            ELSE Await("rec_lookup")
    /\ UNCHANGED <<request, central_movie, similar_data, candidate_movies,
                   unique_candidates, idx, scored_movies, raised_at,
                   discover_queried, failed_sources, lookups>>

\* get_enhanced_recommendations: the lookup of the central movie
RecommendLookup(answer) ==
    /\ pc = "rec_lookup"
    /\ central_movie' = get_movie_details(answer)
    /\ ref_cause' = answer.kind
    /\ IF ~central_movie'.present
       THEN Return(<<>>)
       ELSE Await("similar")
    /\ UNCHANGED <<request, central_movie_data, similar_data, candidate_movies,
                   unique_candidates, idx, scored_movies, raised_at,
                   discover_queried, failed_sources, lookups>>

\* GET /movies/{id} arrives
CallDetails(id) ==
    /\ pc = "idle"
    /\ entry' = "details"
    /\ movie_id' = id
    /\ Await("det_lookup")
    /\ UNCHANGED <<limit, central_movie_data, central_movie, similar_data,
                   candidate_movies, unique_candidates, idx, scored_movies, ref_cause,
                   raised_at, discover_queried, failed_sources, lookups>>

\* get_movie_details_endpoint: the handler's local movie_data is not kept
DetailsLookup(answer) ==
    /\ pc = "det_lookup"
    /\ ref_cause' = answer.kind
    /\ LET movie_data == get_movie_details(answer)
       IN  IF ~movie_data.present
           THEN HTTPException(404, "Movie not found")
           ELSE /\ status' = IF ProcessRaises(movie_data, 0) THEN 500 ELSE 200
                /\ detail' = IF ProcessRaises(movie_data, 0)
                             THEN "Internal server error" ELSE "OK"
                /\ pc' = "done"
                /\ UNCHANGED <<recommended, related_movies>>
    /\ UNCHANGED <<request, central_movie_data, central_movie, similar_data,
                   candidate_movies, unique_candidates, idx, scored_movies, raised_at,
                   discover_queried, failed_sources, lookups>>

\* requests.get raised, or response.json() raised on a 200
ListRaises(answer) == answer.kind \in {"exception", "badjson"}

\* history of the two first sources: the one that did not answer with a list
Noted(source, answer) ==
    failed_sources' = IF answer.kind = "ok" THEN failed_sources
                      ELSE failed_sources \cup {source}

\* lines 213-236 once candidate_movies is complete: dedup, then the loop
\* over unique_candidates[:30] (which waits for the first candidate's details)
Combined(movies) ==
    /\ candidate_movies' = movies
    /\ unique_candidates' = UniqueCandidates(movies, movie_id)
    /\ idx' = 1
    /\ IF NoId \in Elems(movies)
       THEN Caught("dedup")
       ELSE /\ UNCHANGED raised_at
            /\ IF Take(unique_candidates', ProcessCap) = <<>>
               THEN Return(TopResults(SortDesc(scored_movies), limit))
               ELSE Await("hydrate")

\* the answer of /movie/{id}/similar
Similar(answer) ==
    /\ pc = "similar"
    /\ similar_data' = answer.results
    /\ Noted("similar", answer)
    /\ IF ListRaises(answer)
       THEN Caught("similar")
       ELSE Await("recommendations") /\ UNCHANGED raised_at
    /\ UNCHANGED <<request, central_movie_data, central_movie, candidate_movies,
                   unique_candidates, idx, scored_movies, ref_cause,
                   discover_queried, lookups>>

\* mutant: `<=` for `<` in the test of the threshold
NeedsDiscover_inclusive(movies) ==
    Len(movies) <= limit * 2 /\ central_movie.genres # <<>>

\* if len(candidate_movies) < limit * 2: ... if central_genres:
NeedsDiscover(movies) ==
    Len(movies) < limit * 2 /\ central_movie.genres # <<>>

\* the answer of /movie/{id}/recommendations; candidate_movies takes the two
\* lists over, similar_data is not read again
Recommendations(answer) ==
    /\ pc = "recommendations"
    /\ Noted("recommendations", answer)
    /\ IF ListRaises(answer)
       THEN /\ Caught("recommendations")
            /\ UNCHANGED <<similar_data, candidate_movies, unique_candidates, idx,
                           discover_queried>>
       ELSE /\ similar_data' = <<>>
            /\ IF NeedsDiscover(similar_data \o answer.results)
               THEN /\ candidate_movies' = similar_data \o answer.results
                    /\ IF NoId \in Elems(Take(central_movie.genres, TopGenres))
                       THEN Caught("genres") /\ UNCHANGED discover_queried
                       ELSE /\ Await("discover")
                            /\ discover_queried' = TRUE
                            /\ UNCHANGED raised_at
                    /\ UNCHANGED <<unique_candidates, idx>>
               ELSE /\ Combined(similar_data \o answer.results)
                    /\ UNCHANGED discover_queried
    /\ UNCHANGED <<request, central_movie_data, central_movie, scored_movies,
                   ref_cause, lookups>>

\* the answer of /discover/movie
Discover(answer) ==
    /\ pc = "discover"
    /\ IF ListRaises(answer)
       THEN /\ Caught("discover")
            /\ UNCHANGED <<candidate_movies, unique_candidates, idx>>
       ELSE Combined(candidate_movies \o answer.results)
    /\ UNCHANGED <<request, central_movie_data, central_movie, similar_data,
                   scored_movies, ref_cause, discover_queried, failed_sources, lookups>>

\* mutant: the loop runs over all of unique_candidates, without the [:30]
Hydrate_uncapped(answer) ==
    /\ pc = "hydrate"
    /\ idx <= Len(unique_candidates)
    /\ LET scored == ScoredWith(scored_movies, central_movie, get_movie_details(answer))
       IN  IF idx = Len(unique_candidates)
           THEN /\ scored_movies' = SortDesc(scored)
                /\ Return(TopResults(SortDesc(scored), limit))
           ELSE /\ scored_movies' = scored
                /\ Await("hydrate")
    /\ idx' = idx + 1
    /\ lookups' = Append(lookups, IF answer.kind # "ok" THEN "failed"
                                   ELSE IF WellFormed(answer.body) THEN "ok"
                                   ELSE "malformed")
    /\ candidate_movies' = <<>>
    /\ UNCHANGED <<request, central_movie_data, central_movie, similar_data,
                   unique_candidates, ref_cause, raised_at, discover_queried,
                   failed_sources>>

\* one turn of the loop over unique_candidates[:30]: the candidate's details
\* arrive; after the last one, the sort and the return.  candidate_movies is
\* not read after the dedup and is forgotten here.
Hydrate(answer) ==
    /\ pc = "hydrate"
    /\ idx <= Len(Take(unique_candidates, ProcessCap))
    /\ LET scored == ScoredWith(scored_movies, central_movie, get_movie_details(answer))
       IN  IF idx = Len(Take(unique_candidates, ProcessCap))
           THEN /\ scored_movies' = SortDesc(scored)
                /\ Return(TopResults(SortDesc(scored), limit))
           ELSE /\ scored_movies' = scored
                /\ Await("hydrate")
    /\ idx' = idx + 1
    /\ lookups' = Append(lookups, IF answer.kind # "ok" THEN "failed"
                                   ELSE IF WellFormed(answer.body) THEN "ok"
                                   ELSE "malformed")
    /\ candidate_movies' = <<>>
    /\ UNCHANGED <<request, central_movie_data, central_movie, similar_data,
                   unique_candidates, ref_cause, raised_at, discover_queried,
                   failed_sources>>

\* the timeout the calls of requests.get pass: none of them passes one
\* (lines 118, 187, 191, 209), and the library then waits without limit
UpstreamTimeout == "none"

\* the calls of the provider a request can be waiting in
Waiting ==
    {"net_lookup", "det_lookup", "rec_lookup", "similar", "recommendations",
     "discover", "hydrate"}

\* the provider never answers the call the request waits in: without a
\* timeout requests.get does not return, and the request stays in the call.
\* The lists get_enhanced_recommendations has built are not read again and
\* are forgotten.
Unanswered ==
    /\ pc \in Waiting
    /\ UpstreamTimeout = "none"
    /\ pc' = "blocked"
    /\ similar_data' = <<>>
    /\ candidate_movies' = <<>>
    /\ unique_candidates' = <<>>
    /\ idx' = 1
    /\ scored_movies' = <<>>
    /\ lookups' = <<>>
    /\ UNCHANGED <<request, central_movie_data, central_movie, recommended,
                   related_movies, status, detail, ref_cause, raised_at,
                   discover_queried, failed_sources>>

\* the second lookup of the reference, inside get_enhanced_recommendations,
\* finds the record the route's own lookup found, or fails
ReferenceAnswers ==
    IF entry = "network"
    THEN {a \in DetailAnswers(movie_id) : a.kind # "ok" \/ a.body = central_movie_data}
    ELSE DetailAnswers(movie_id)

\* the provider's possible answers to the call the request waits for
Next ==
    \/ \E id \in ReferenceIds : CallNetwork(id)
    \/ \E id \in ReferenceIds, lim \in 0..MaxLimit : CallRecommend(id, lim)
    \/ \E id \in ReferenceIds : CallDetails(id)
    \/ pc = "net_lookup" /\ \E a \in DetailAnswers(movie_id) : NetworkLookup(a)
    \/ pc = "det_lookup" /\ \E a \in DetailAnswers(movie_id) : DetailsLookup(a)
    \/ pc = "rec_lookup" /\ \E a \in ReferenceAnswers : RecommendLookup(a)
    \/ pc = "similar" /\ \E a \in ListAnswers(MaxRaw) : Similar(a)
    \/ pc = "recommendations"
       /\ \E a \in ListAnswers(MaxRaw - Len(similar_data)) : Recommendations(a)
    \/ pc = "discover"
       /\ \E a \in ListAnswers(MaxRaw - Len(candidate_movies)) : Discover(a)
    \/ pc = "hydrate"
       /\ \E a \in DetailAnswers(unique_candidates[idx]) : Hydrate(a)
    \/ Unanswered

Spec == Init /\ [][Next]_vars

\* ------------------------------------------------------- the scorer alone
\* A network request whose gather found the one candidate 2: the reference
\* is any record of MovieRecords, and so is the candidate's answer.
InitScore ==
    /\ pc = "hydrate"
    /\ entry = "network"
    /\ movie_id = 1
    /\ limit = NetworkLimit
    /\ \E r \in MovieRecords :
          /\ central_movie_data = Details(1, r.genres, r.crew, r.cast)
          /\ central_movie = Details(1, r.genres, r.crew, r.cast)
          /\ discover_queried = (r.genres # <<>>)
    /\ similar_data = <<>>
    /\ candidate_movies = <<2>>
    /\ unique_candidates = <<2>>
    /\ idx = 1
    /\ scored_movies = <<>>
    /\ recommended = <<>>
    /\ related_movies = <<>>
    /\ status = 0
    /\ detail = ""
    /\ ref_cause = "ok"
    /\ raised_at = "none"
    /\ failed_sources = {}
    /\ lookups = <<>>

NextScore ==
    pc = "hydrate"
    /\ \E r \in MovieRecords :
          Hydrate([kind |-> "ok", body |-> Details(unique_candidates[idx],
                                                   r.genres, r.crew, r.cast)])

ScoreSpec == InitScore /\ [][NextScore]_vars

\* ------------------------------------------------------ the long gather
\* A network request for a reference with genres, from the point where
\* get_enhanced_recommendations has found it: the sources answer with long
\* lists of consecutive ids, and every candidate has one answer.
LongStarts == {1, 8, 25}
LongLens == {0, 9, 12, 20, MaxLong}

\* the result lists of a source
LongLists == {Run(lo, n) : lo \in LongStarts, n \in LongLens}

LongAnswers == {[kind |-> "ok", results |-> l] : l \in LongLists}

\* the provider's answer to the lookup of candidate id: one of DetailAnswers(id)
CandidateAnswer(id) ==
    IF id % 7 = 0 THEN [kind |-> "unavailable", body |-> EmptyDict]
    ELSE IF id % 3 = 0
         THEN [kind |-> "ok", body |-> Details(id, <<1>>, <<Director(7)>>, <<>>)]
    ELSE IF id % 2 = 0
         THEN [kind |-> "ok",
               body |-> Details(id, <<1, 2>>, <<Writer(8), Director(7)>>, Run(1, 6))]
    ELSE [kind |-> "ok", body |-> Details(id, <<>>, <<>>, <<9>>)]

InitCap ==
    /\ pc = "similar"
    /\ entry = "network"
    /\ movie_id = 1
    /\ limit = NetworkLimit
    /\ central_movie_data = Details(1, <<1, 2>>, <<Writer(8), Director(7)>>, Run(1, 6))
    /\ central_movie = central_movie_data
    /\ similar_data = <<>>
    /\ candidate_movies = <<>>
    /\ unique_candidates = <<>>
    /\ idx = 1
    /\ scored_movies = <<>>
    /\ recommended = <<>>
    /\ related_movies = <<>>
    /\ status = 0
    /\ detail = ""
    /\ ref_cause = "ok"
    /\ raised_at = "none"
    /\ discover_queried = FALSE
    /\ failed_sources = {}
    /\ lookups = <<>>

NextCap ==
    \/ pc = "similar" /\ \E a \in LongAnswers : Similar(a)
    \/ pc = "recommendations" /\ \E a \in LongAnswers : Recommendations(a)
    \/ pc = "discover" /\ \E a \in LongAnswers : Discover(a)
    \/ pc = "hydrate" /\ Hydrate(CandidateAnswer(unique_candidates[idx]))

CapSpec == InitCap /\ [][NextCap]_vars

\* ------------------------------------------------------------- the claims
\* position of a movie id in the candidate pool
PoolPos(id) == CHOOSE i \in 1..Len(unique_candidates) : unique_candidates[i] = id

\* C1: whatever the reference, the limit >= 0 and the provider's answers, the
\* list get_enhanced_recommendations returns has at most `limit` entries (and
\* so has the list of related movies the network route builds from it).
C1_AtMostLimit ==
    /\ Len(recommended) <= limit
    /\ Len(related_movies) <= limit

\* C1 witness: more candidates were scored than the limit allows, and the
\* returned list was cut to the limit.
C1_Truncated ==
    /\ pc = "done"
    /\ limit > 0
    /\ Len(scored_movies) > limit
    /\ Len(recommended) = limit

\* C2: for every pair of records the score lies in [0,1], and every related
\* movie of the response carries that score.
C2_ScoreInUnitInterval ==
    /\ \A i \in 1..Len(scored_movies) :
          /\ scored_movies[i].similarity_score >= 0
          /\ scored_movies[i].similarity_score <= ScoreOne
    /\ \A i \in 1..Len(related_movies) :
          /\ related_movies[i].similarity_score >= 0
          /\ related_movies[i].similarity_score <= ScoreOne
          /\ related_movies[i].similarity_score = recommended[i].similarity_score

\* C2 witness: a related movie that shares all three genres, the director
\* and five or more actors with the reference: 0.40 + 0.25 + 0.15.
C2_AllTermsScored ==
    /\ pc = "done"
    /\ Len(related_movies) = 1
    /\ Cardinality(Elems(central_movie.genres)) = MaxGenres
    /\ related_movies[1].similarity_score = (80 * ScoreOne) \div 100

\* C3: the deduplicated pool never holds the reference id.
C3_ReferenceNotInPool == movie_id \notin Elems(unique_candidates)

\* C3 witness: the sources listed the reference itself among other movies.
C3_ReferenceWasListed ==
    /\ pc = "hydrate"
    /\ movie_id \in Elems(candidate_movies)
    /\ unique_candidates # <<>>

\* C4: no id is twice in the deduplicated pool.
C4_NoDuplicateInPool ==
    \A i, j \in 1..Len(unique_candidates) :
        i # j => unique_candidates[i] # unique_candidates[j]

\* C4 witness: the sources listed a candidate twice, and another one too.
C4_DuplicateWasListed ==
    /\ pc = "hydrate"
    /\ Len(unique_candidates) >= 2
    /\ \E i, j \in 1..Len(candidate_movies) :
          /\ i < j
          /\ candidate_movies[i] = candidate_movies[j]
          /\ candidate_movies[i] # movie_id

\* C5: the returned list is in descending order of score, and returned
\* candidates of equal score keep the order they have in the candidate pool.
C5_SortedStable ==
    pc = "done" =>
        \A i, j \in 1..Len(recommended) :
            i < j =>
                /\ recommended[i].similarity_score >= recommended[j].similarity_score
                /\ recommended[i].similarity_score = recommended[j].similarity_score
                   => PoolPos(recommended[i].id) < PoolPos(recommended[j].id)

\* C5 witness: three candidates are returned, two of them with equal scores,
\* and the sort moved the third one ahead of a candidate that precedes it in
\* the pool.
C5_TieAndReorder ==
    /\ pc = "done"
    /\ Len(recommended) = 3
    /\ \E i \in 1..2 : recommended[i].similarity_score = recommended[i + 1].similarity_score
    /\ \E i \in 1..2 : PoolPos(recommended[i].id) > PoolPos(recommended[i + 1].id)

\* the route's own lookup of the reference got no record
ReferenceLookupFailed == entry = "network" /\ ~central_movie_data.present

C7_UnavailableIsNotNotFound ==
    (pc = "done" /\ ReferenceLookupFailed /\ ref_cause = "unavailable")
        => ~(status = 404 /\ detail = "Movie not found")

\* the operation completed as a success: the route answered 200, or the
\* direct call returned its list
Succeeded ==
    /\ pc = "done"
    /\ \/ entry = "network" /\ status = 200
       \/ entry = "recommend"

\* C8: when a lookup of the reference failed, the operation does not
\* complete as a success with a list of related movies.
C8_ReferenceFailureFails ==
    ref_cause \in {"not_found", "unavailable"} => ~Succeeded

\* the candidates the sources are known to have listed
Listed ==
    (Elems(similar_data) \cup Elems(candidate_movies) \cup Elems(unique_candidates))
        \ {movie_id}

\* C9: when /similar or /recommendations failed, the candidates the other
\* sources listed are still looked up (no entry without an id and no failure
\* of /discover being in the way).
C9_SourceFailureIsEmptyList ==
    (/\ pc = "done"
     /\ central_movie.present
     /\ failed_sources # {}
     /\ raised_at \notin {"genres", "discover", "dedup"}
     /\ Listed # {}
     /\ NoId \notin Listed)
        => Len(lookups) = Len(Take(unique_candidates, ProcessCap)) /\ lookups # <<>>

\* the ids of the scored movies
ScoredIds == {scored_movies[k].id : k \in 1..Len(scored_movies)}

\* C10: with a well-formed reference and no exception outside the loop, the
\* operation does not fail, every candidate of the pool is looked up, exactly
\* the candidates whose lookup gave a well-formed record are scored, and the
\* result is the first `limit` of them.
C10_FailedCandidateOnlyDropped ==
    (/\ pc = "done"
     /\ central_movie.present
     /\ WellFormed(central_movie)
     /\ raised_at = "none")
        => /\ status \in {0, 200}
           /\ Len(lookups) = Len(Take(unique_candidates, ProcessCap))
           /\ \A i \in 1..Len(lookups) :
                 (lookups[i] = "ok") <=> (unique_candidates[i] \in ScoredIds)
           /\ recommended = Take(scored_movies, limit)

\* C10 witness: a candidate's lookup failed, the lookups before and after it
\* succeeded, and both of those candidates are in the result.
C10_OneFailedOthersReturned ==
    /\ pc = "done"
    /\ lookups = <<"ok", "failed", "ok">>
    /\ {recommended[k].id : k \in 1..Len(recommended)}
          = {unique_candidates[1], unique_candidates[3]}

\* C11: an entry without an id in the list of a source affects only that
\* entry: the other candidates the sources listed are still looked up (no
\* failure of a source and no malformed reference being in the way).
C11_MalformedEntryOnlyDropped ==
    (/\ pc = "done"
     /\ limit > 0
     /\ central_movie.present
     /\ WellFormed(central_movie)
     /\ raised_at \in {"none", "dedup"}
     /\ NoId \in Elems(candidate_movies)
     /\ Listed \ {NoId} # {})
        => lookups # <<>>

\* C12: when the reference was found and the sources listed no candidate (no
\* id other than the reference's own), get_enhanced_recommendations returns
\* the empty list, no error is raised, and the network route answers 200 with
\* no related movie.
C12_NoCandidatesIsEmptySuccess ==
    (/\ pc = "done"
     /\ central_movie.present
     /\ Listed = {})
        => /\ recommended = <<>>
           /\ lookups = <<>>
           /\ entry = "network" => (status = 200 /\ related_movies = <<>>)
           /\ entry = "recommend" => status = 0

\* C12 witness: a network request whose three sources all answered, and
\* listed nothing but the reference itself.
C12_AllSourcesEmpty ==
    /\ pc = "done"
    /\ entry = "network"
    /\ central_movie.present
    /\ discover_queried
    /\ failed_sources = {}
    /\ raised_at = "none"
    /\ Listed = {}
    /\ status = 200
    /\ related_movies = <<>>

\* C13: whatever the sources list, at most 30 candidate lookups are made in
\* one operation.
C13_AtMostThirtyLookups ==
    /\ Len(lookups) <= ProcessCap
    /\ pc = "hydrate" => idx <= ProcessCap

\* C13 witness: the sources listed 40 entries or more, the deduplicated pool
\* holds more than 30 candidates, and the operation ended after 30 lookups.
C13_PoolOverCap ==
    /\ pc = "done"
    /\ Len(unique_candidates) >= 40
    /\ Len(lookups) = ProcessCap

\* the actors two records share among their top 10 billed cast
CommonTopCast(a, b) == Elems(Take(a.cast, TopCast)) \cap Elems(Take(b.cast, TopCast))

\* C14: a candidate with the reference's non-empty genre set, the
\* reference's director (the first directors' identifiers are equal) and 5 or
\* more common actors among the top 10 scores at least 0.80.
C14_FullMatchScoresEighty ==
    \A i \in 1..Len(scored_movies) :
        (/\ Elems(central_movie.genres) # {}
         /\ Elems(central_movie.genres) = Elems(scored_movies[i].genres)
         /\ FirstDirector(central_movie.crew) # NoId
         /\ FirstDirector(central_movie.crew) = FirstDirector(scored_movies[i].crew)
         /\ Cardinality(CommonTopCast(central_movie, scored_movies[i])) >= CastSaturation)
            => scored_movies[i].similarity_score >= (80 * ScoreOne) \div 100

\* the provider answered the route's lookup of the requested id with "no
\* such movie"
UnknownId ==
    /\ pc = "done"
    /\ ref_cause = "not_found"
    /\ entry = "details" \/ ReferenceLookupFailed

RecommendationsAnswered ==
    pc = "recommendations" /\ pc' \in {"discover", "hydrate", "done"}

\* a step in which /discover/movie is answered
DiscoverAnswered == pc = "discover" /\ pc' \in {"hydrate", "done"}

\* the results of /discover/movie go after those of the two first sources
DiscoverAppended ==
    DiscoverAnswered =>
        SubSeq(candidate_movies', 1, Len(candidate_movies)) = candidate_movies

FirstSeen(movies, id) ==
    CHOOSE i \in 1..Len(movies) :
        movies[i] = id /\ \A j \in 1..(i - 1) : movies[j] # id

\* after the dedup, the pool holds the ids of candidate_movies other than
\* the reference, once each, in the order they are first seen
PoolIsFirstSeen ==
    (pc = "hydrate" /\ idx = 1) =>
        /\ Elems(unique_candidates) = Elems(candidate_movies) \ {movie_id}
        /\ \A i, j \in 1..Len(unique_candidates) :
              i < j => FirstSeen(candidate_movies, unique_candidates[i])
                           < FirstSeen(candidate_movies, unique_candidates[j])

\* the candidates looked up are the first 30 of the pool, or all of it
KeptAreFirstThirty ==
    (pc = "done" /\ raised_at = "none") =>
        /\ Len(lookups) = Min(Len(unique_candidates), ProcessCap)
        /\ \A i \in 1..Len(lookups) :
              (lookups[i] = "ok") <=> (unique_candidates[i] \in ScoredIds)
        /\ ScoredIds \subseteq Elems(Take(unique_candidates, ProcessCap))

\* candidate_movies begins with the results of /similar
SimilarFirst ==
    (RecommendationsAnswered /\ raised_at' = "none") =>
        SubSeq(candidate_movies', 1, Len(similar_data)) = similar_data

\* C17: the candidates looked up are the first 30 distinct ids other than the
\* reference, in first-seen order of the results of /similar, then those of
\* /recommendations, then those of /discover/movie.
C17_FirstThirtyFirstSeen ==
    /\ [](PoolIsFirstSeen /\ KeptAreFirstThirty)
    /\ [][SimilarFirst /\ DiscoverAppended]_vars

\* C17 witness: all three sources were queried, the pool is not in the order
\* of the ids, and the cap dropped the candidates after the 30th.
C17_CapDroppedLaterOnes ==
    /\ pc = "done"
    /\ discover_queried
    /\ Len(unique_candidates) > ProcessCap
    /\ Len(lookups) = ProcessCap
    /\ \E i \in 1..(ProcessCap - 1) : unique_candidates[i] > unique_candidates[i + 1]
    /\ unique_candidates[ProcessCap + 1] \notin ScoredIds

\* C18: every call of the provider is bounded by a timeout, so that no
\* request stays for ever in a call the provider does not answer.
C18_NoCallWaitsForEver == pc # "blocked"

\* the genre, director and cast terms of two records, added up
TermsSum(a, b) ==
    GenreTerm(Elems(a.genres), Elems(b.genres))
    + DirectorTerm(FirstDirector(a.crew), FirstDirector(b.crew))
    + CastTerm(Elems(Take(a.cast, TopCast)), Elems(Take(b.cast, TopCast)))

\* C19: for every pair of records the three terms add up to 0.80 at most,
\* and the score is that sum: the cap changes nothing and no base term is
\* added.
C19_ClampNeverActs ==
    \A i \in 1..Len(scored_movies) :
        /\ TermsSum(central_movie, scored_movies[i]) <= (80 * ScoreOne) \div 100
        /\ scored_movies[i].similarity_score = TermsSum(central_movie, scored_movies[i])

\* C19 witness: a pair whose cast lists are longer than 10 and whose three
\* terms are all at their largest.
C19_LargestSum ==
    /\ pc = "done"
    /\ Len(scored_movies) = 1
    /\ Len(central_movie.cast) > TopCast
    /\ Len(scored_movies[1].cast) > TopCast
    /\ TermsSum(central_movie, scored_movies[1]) = (80 * ScoreOne) \div 100

\* C20: the score of (reference a, candidate b) is the score of (reference b,
\* candidate a).
C20_ScoreSymmetric ==
    \A i \in 1..Len(scored_movies) :
        calculate_similarity_score(scored_movies[i], central_movie)
            = scored_movies[i].similarity_score

\* C20 witness: two records with genre sets of different sizes, different
\* crews and cast lists of which one is cut to its top 10, that score above 0.
C20_UnlikeRecordsScored ==
    /\ pc = "done"
    /\ Len(scored_movies) = 1
    /\ Len(central_movie.genres) < Len(scored_movies[1].genres)
    /\ central_movie.crew # scored_movies[1].crew
    /\ Len(central_movie.cast) > TopCast
    /\ Len(scored_movies[1].cast) < TopCast
    /\ GenreTerm(Elems(central_movie.genres), Elems(scored_movies[1].genres)) > 0
    /\ DirectorTerm(FirstDirector(central_movie.crew),
                    FirstDirector(scored_movies[1].crew)) > 0
    /\ CastTerm(Elems(Take(central_movie.cast, TopCast)),
                Elems(Take(scored_movies[1].cast, TopCast))) > 0

====
